---- MODULE Spec2Model ----
(***************************************************************************)
(* Model of src/src/drilldown-webfonts.ts: the three module-level caches   *)
(* and the async pipeline buildFontEmbedCSS -> collectUsedTriples ->       *)
(* getMatchingFontFaceRules -> inlineFontFace -> urlToDataUrl.             *)
(*                                                                         *)
(* Strings are sequences of one-character strings, so that trim, quote     *)
(* stripping, lower-casing, splitting and sorting are computed as the code *)
(* computes them.  Fixed template text of the rendered CSS is kept as      *)
(* multi-character tokens of the same sequences.                           *)
(*                                                                         *)
(* JavaScript runs one task at a time: an action is the code that runs     *)
(* between two awaits of one buildFontEmbedCSS call.                       *)
(***************************************************************************)
EXTENDS Naturals, Sequences, FiniteSets, TLC

VARIABLES styleSheets, fontDataUrlCache, inlinedFaceCache,
          embedCssForTriplesCache, calls, fetchCount, okCount, overlapped

vars == <<styleSheets, fontDataUrlCache, inlinedFaceCache,
          embedCssForTriplesCache, calls, fetchCount, okCount, overlapped>>

(***************************************************************************)
(* Bounds of the model.                                                    *)
(***************************************************************************)
MaxCalls == 2

MaxSheets == 2

(***************************************************************************)
(* String primitives of the JavaScript runtime                              *)
(***************************************************************************)
\* The characters used, in UTF-16 code unit order.
Ascii ==
  <<" ", "\"", "'", "+", ",", "-",
    "0", "1", "2", "3", "4", "5", "6", "7", "8", "9",
    "A", "B", "C", "D", "E", "F", "G", "H", "I", "J", "K", "L", "M",
    "N", "O", "P", "Q", "R", "S", "T", "U", "V", "W", "X", "Y", "Z",
    "a", "b", "c", "d", "e", "f", "g", "h", "i", "j", "k", "l", "m",
    "n", "o", "p", "q", "r", "s", "t", "u", "v", "w", "x", "y", "z",
    "|">>

UpperChars ==
  <<"A", "B", "C", "D", "E", "F", "G", "H", "I", "J", "K", "L", "M",
    "N", "O", "P", "Q", "R", "S", "T", "U", "V", "W", "X", "Y", "Z">>

LowerChars ==
  <<"a", "b", "c", "d", "e", "f", "g", "h", "i", "j", "k", "l", "m",
    "n", "o", "p", "q", "r", "s", "t", "u", "v", "w", "x", "y", "z">>

Chars == { Ascii[i] : i \in 1..Len(Ascii) }

\* The code unit order of the characters.
CodeOf == [ch \in Chars |-> CHOOSE i \in 1..Len(Ascii) : Ascii[i] = ch]

Code(ch) == CodeOf[ch]

LowerOf ==
  [ch \in Chars |->
     IF \E k \in 1..Len(UpperChars) : UpperChars[k] = ch
     THEN LowerChars[CHOOSE k \in 1..Len(UpperChars) : UpperChars[k] = ch]
     ELSE ch]

toLowerCase(s) == [i \in 1..Len(s) |-> LowerOf[s[i]]]

RECURSIVE trimStart(_)
trimStart(s) ==
  IF s # <<>> /\ Head(s) = " " THEN trimStart(Tail(s)) ELSE s

RECURSIVE trimEnd(_)
trimEnd(s) ==
  IF s # <<>> /\ s[Len(s)] = " " THEN trimEnd(SubSeq(s, 1, Len(s) - 1)) ELSE s

trim(s) == trimEnd(trimStart(s))

IsQuote(ch) == ch = "'" \/ ch = "\""

\* s.replace(/^['"]|['"]$/g, ''): one leading and one trailing quote go.
stripQuotes(s) ==
  LET a == IF s # <<>> /\ IsQuote(Head(s)) THEN Tail(s) ELSE s
  IN  IF a # <<>> /\ IsQuote(a[Len(a)]) THEN SubSeq(a, 1, Len(a) - 1) ELSE a

\* s.split(sep) for a one-character separator.
RECURSIVE split(_, _)
split(s, sep) ==
  IF \E i \in 1..Len(s) : s[i] = sep
  THEN LET i == CHOOSE j \in 1..Len(s) :
                   s[j] = sep /\ \A k \in 1..(j - 1) : s[k] # sep
       IN  <<SubSeq(s, 1, i - 1)>> \o split(SubSeq(s, i + 1, Len(s)), sep)
  ELSE <<s>>

\* s.includes(sub)
includes(s, sub) ==
  \E i \in 0..Len(s) :
     i + Len(sub) <= Len(s) /\ SubSeq(s, i + 1, i + Len(sub)) = sub

\* regex test /^(p)/ for a literal p
startsWith(s, p) == Len(p) <= Len(s) /\ SubSeq(s, 1, Len(p)) = p

\* parts.join(sep)
RECURSIVE join(_, _)
join(parts, sep) ==
  IF parts = <<>> THEN <<>>
  ELSE IF Len(parts) = 1 THEN parts[1]
  ELSE parts[1] \o sep \o join(Tail(parts), sep)

\* a < b in the default sort order of Array.prototype.sort (code units)
RECURSIVE strLess(_, _)
strLess(a, b) ==
  IF b = <<>> THEN FALSE
  ELSE IF a = <<>> THEN TRUE
  ELSE IF Head(a) = Head(b) THEN strLess(Tail(a), Tail(b))
  ELSE Code(Head(a)) < Code(Head(b))

\* Array.from(set).sort()
RECURSIVE sortSet(_)
sortSet(S) ==
  IF S = {} THEN <<>>
  ELSE LET m == CHOOSE x \in S : \A y \in S \ {x} : strLess(x, y)
       IN  <<m>> \o sortSet(S \ {m})

\* JavaScript truthiness of a string-or-undefined Map.get result
Truthy(map, k) == k \in DOMAIN map /\ map[k] # <<>>

\* Map.prototype.set
MapSet(map, k, v) ==
  [x \in DOMAIN map \cup {k} |-> IF x = k THEN v ELSE map[x]]

\* value || dflt
OrElse(s, dflt) == IF s = <<>> THEN dflt ELSE s

(***************************************************************************)
(* String literals                                                         *)
(***************************************************************************)
sEmpty == <<>>

sNormal == <<"n", "o", "r", "m", "a", "l">>

sBold == <<"b", "o", "l", "d">>

sItalic == <<"i", "t", "a", "l", "i", "c">>

s400 == <<"4", "0", "0">>

s700 == <<"7", "0", "0">>

sBars == <<"|", "|">>

sSansSerif == <<"s", "a", "n", "s", "-", "s", "e", "r", "i", "f">>

sWoff == <<"w", "o", "f", "f">>

sWoff2 == <<"w", "o", "f", "f", "2">>

sTruetype == <<"t", "r", "u", "e", "t", "y", "p", "e">>

\* The alternatives of the generic-family pattern at line 40.
GenericPrefixes ==
  { <<"s", "e", "r", "i", "f">>,
    sSansSerif,
    <<"m", "o", "n", "o", "s", "p", "a", "c", "e">>,
    <<"s", "y", "s", "t", "e", "m", "-", "u", "i">>,
    <<"u", "i", "-">> }

\* The value a function returns for null (never a string of the program).
NULL == <<"null">>

(***************************************************************************)
(* The hosting environment: computed styles, style sheets, network         *)
(***************************************************************************)
Element(family, weight, style) ==
  [fontFamily |-> family, fontWeight |-> weight, fontStyle |-> style]

\* Subtrees, each given as its elements in TreeWalker (document) order.
RootAb == << Element(<<"A", "b", ",", " ">> \o sSansSerif, s400, sNormal) >>

RootGeneric ==
  << Element(sSansSerif, s400, sNormal), Element(sEmpty, s400, sNormal) >>

RootMixed ==
  << Element(<<"\"", "a", "b", "\"">>, sNormal, sEmpty),
     Element(<<"C", "d">>, sBold, sItalic),
     Element(<<"\"", "a", "b", "\"">>, s400, sNormal),
     Element(<<"A", "b">>, s400, sNormal),
     Element(<<"S", "e", "r", "i", "f", "a">>, s400, sNormal),
     Element(<<"u", "i", "-", "x">>, s400, sNormal) >>

Roots == {RootAb, RootGeneric, RootMixed}

\* One url(...) [format(...)] entry of a src property value.
SrcEntry(url, hasFormat, format) ==
  [url |-> url, hasFormat |-> hasFormat, format |-> format]

FaceRule(family, weight, style, uRange, src) ==
  [type |-> "FONT_FACE_RULE", family |-> family, weight |-> weight,
   style |-> style, uRange |-> uRange, src |-> src]

\* A rule of another kind (CSSStyleRule): only its type is looked at.
StyleRule ==
  [type |-> "STYLE_RULE", family |-> sEmpty, weight |-> sEmpty,
   style |-> sEmpty, uRange |-> sEmpty, src |-> <<>>]

\* woff listed before woff2; no font-weight
FaceAb1 ==
  FaceRule(<<"A", "b">>, sEmpty, sNormal, sEmpty,
           << SrcEntry(<<"u", "1">>, TRUE, <<"'">> \o sWoff \o <<"'">>),
              SrcEntry(<<"u", "2">>, TRUE, <<"'">> \o sWoff2 \o <<"'">>) >>)

\* the family, style and unicode-range of FaceAb1 and its default weight
\* (the same signature), another src
FaceAb2 ==
  FaceRule(<<"A", "b">>, s400, sNormal, sEmpty,
           << SrcEntry(<<"'", "u", "3", "'">>, TRUE,
                       <<"\"", "W", "O", "F", "F", "2", "\"">>) >>)

\* quoted lower-case family, keyword weight, no style; shares u2 with FaceAb1
FaceAb3 ==
  FaceRule(<<" ", "'", "a", "b", "'">>, sNormal, sEmpty, sEmpty,
           << SrcEntry(<<"u", "2">>, TRUE, sWoff2) >>)

\* a src without any format(...): no candidate
FaceCdNoSrc ==
  FaceRule(<<"C", "d">>, sBold, sItalic, <<"U", "+", "0", "-", "7", "F">>,
           << SrcEntry(<<"u", "4">>, FALSE, sEmpty) >>)

\* no woff2 candidate at all; a unicode-range
FaceCd ==
  FaceRule(<<"C", "d">>, s700, sItalic, <<"U", "+", "0", "-", "7", "F">>,
           << SrcEntry(<<"u", "4">>, TRUE, sTruetype),
              SrcEntry(<<"u", "1">>, TRUE, sWoff) >>)

\* no weight and no style (the signature of FaceAb1), and no candidate
FaceAbNoSrc ==
  FaceRule(<<"A", "b">>, sEmpty, sEmpty, sEmpty,
           << SrcEntry(<<"u", "4">>, FALSE, sEmpty) >>)

FaceNoFamily ==
  FaceRule(sEmpty, s400, sNormal, sEmpty,
           << SrcEntry(<<"u", "1">>, TRUE, sWoff2) >>)

Sheet(rules) == [throws |-> FALSE, cssRules |-> rules]

\* A cross-origin sheet: reading cssRules throws.
SheetThrows == [throws |-> TRUE, cssRules |-> <<>>]

SheetA == Sheet(<<StyleRule, FaceAb1, FaceAb2, FaceAbNoSrc>>)

SheetB == Sheet(<<FaceAb3, FaceCdNoSrc, FaceNoFamily, FaceCd>>)

SheetPool == {SheetThrows, SheetA, SheetB}

\* The values document.styleSheets can have: lists of distinct sheets.
Documents ==
  UNION { { f \in [1..n -> SheetPool] :
              \A i, j \in 1..n : f[i] = f[j] => i = j } :
          n \in 0..MaxSheets }

\* The bytes the network serves for a url (a resource does not change).
Blob(url) == <<"bytes:">> \o url

\* FileReader.readAsDataURL
readAsDataURL(blob) == <<"data:;base64,">> \o blob

(***************************************************************************)
(* collectUsedTriples (lines 27-50)                                        *)
(***************************************************************************)
\* line 36-39: the first family of the computed font-family list
firstFamily(el) ==
  LET families == split(el.fontFamily, ",")
  IN  stripQuotes(trim(families[1]))

\* line 40: /^(serif|sans-serif|monospace|system-ui|ui-)/i.test(family)
isGenericFamily(family) ==
  \E p \in GenericPrefixes : startsWith(toLowerCase(family), p)

\* lines 44-45 and 74-75
normalizeWeight(w) ==
  IF w = sNormal THEN s400 ELSE IF w = sBold THEN s700 ELSE w

\* lines 42-46
tripleOf(el) ==
  LET style  == OrElse(trim(OrElse(el.fontStyle, sNormal)), sNormal)
      weight == normalizeWeight(trim(OrElse(el.fontWeight, s400)))
  IN  firstFamily(el) \o sBars \o weight \o sBars \o style

collectUsedTriples(root) ==
  { tripleOf(root[i]) :
      i \in { j \in 1..Len(root) :
                /\ firstFamily(root[j]) # sEmpty
                /\ ~isGenericFamily(firstFamily(root[j])) } }

(***************************************************************************)
(* getMatchingFontFaceRules (lines 53-82)                                  *)
(***************************************************************************)
\* ruleKey without the mapping of lines 74-75.
ruleKey_KeepsKeywords(ff) ==
  LET family == stripQuotes(trim(ff.family))
      style  == OrElse(trim(OrElse(ff.style, sNormal)), sNormal)
      weight == trim(OrElse(ff.weight, s400))
  IN  toLowerCase(family \o sBars \o weight \o sBars \o style)

\* lines 66-76: the lower-cased key of a font-face rule
ruleKey(ff) ==
  LET family == stripQuotes(trim(ff.family))
      style  == OrElse(trim(OrElse(ff.style, sNormal)), sNormal)
      weight == normalizeWeight(trim(OrElse(ff.weight, s400)))
  IN  toLowerCase(family \o sBars \o weight \o sBars \o style)

\* lines 63-78: the inner loop over the rules of one sheet
RECURSIVE matchRules(_, _)
matchRules(rules, want) ==
  IF rules = <<>> THEN <<>>
  ELSE LET rule == Head(rules)
           rest == matchRules(Tail(rules), want)
       IN  IF rule.type # "FONT_FACE_RULE" THEN rest
           ELSE IF stripQuotes(trim(rule.family)) = sEmpty THEN rest
           ELSE IF ruleKey(rule) \in want THEN <<rule>> \o rest
           ELSE rest

\* matchSheets leaving the loop at a sheet that throws.
RECURSIVE matchSheets_StopsAtThrow(_, _)
matchSheets_StopsAtThrow(sheets, want) ==
  IF sheets = <<>> THEN <<>>
  ELSE LET sheet == Head(sheets)
       IN  IF sheet.throws THEN <<>>
           ELSE matchRules(sheet.cssRules, want)
                  \o matchSheets_StopsAtThrow(Tail(sheets), want)

\* lines 56-62: the outer loop; a sheet whose cssRules throws is skipped
RECURSIVE matchSheets(_, _)
matchSheets(sheets, want) ==
  IF sheets = <<>> THEN <<>>
  ELSE LET sheet == Head(sheets)
       IN  IF sheet.throws THEN matchSheets(Tail(sheets), want)
           ELSE matchRules(sheet.cssRules, want)
                  \o matchSheets(Tail(sheets), want)

getMatchingFontFaceRules(sheets, triples) ==
  matchSheets(sheets, { toLowerCase(tr) : tr \in triples })

(***************************************************************************)
(* inlineFontFace (lines 85-123), its synchronous parts                    *)
(***************************************************************************)
sigFamily(rule) == trim(rule.family)

sigWeight(rule) == trim(OrElse(rule.weight, s400))

sigStyle(rule) == trim(OrElse(rule.style, sNormal))

sigRange(rule) == trim(OrElse(rule.uRange, sEmpty))

\* line 93
cacheKeyOf(rule) ==
  sigFamily(rule) \o sBars \o sigWeight(rule) \o sBars \o sigStyle(rule)
    \o sBars \o sigRange(rule)

\* lines 99-104: the entries the pattern matches are those with a non-empty
\* url(...) followed by a non-empty format(...)
RECURSIVE parseSrc(_)
parseSrc(src) ==
  IF src = <<>> THEN <<>>
  ELSE LET e == Head(src)
       IN  IF e.url # sEmpty /\ e.hasFormat /\ stripQuotes(e.format) # sEmpty
           THEN << [url    |-> stripQuotes(e.url),
                    format |-> toLowerCase(stripQuotes(e.format))] >>
                  \o parseSrc(Tail(src))
           ELSE parseSrc(Tail(src))

\* line 106: urls.find(u => u.format.includes('woff2')) ?? urls[0]
\* (0 when there is no candidate, else the index of the pick)
pickIndex(urls) ==
  IF \E i \in 1..Len(urls) : includes(urls[i].format, sWoff2)
  THEN CHOOSE i \in 1..Len(urls) :
         /\ includes(urls[i].format, sWoff2)
         /\ \A j \in 1..(i - 1) : ~includes(urls[j].format, sWoff2)
  ELSE IF urls # <<>> THEN 1 ELSE 0

\* renderCss writing the rule's font-style as declared, without a default.
renderCss_RawStyle(rule, dataUrl) ==
  <<"@font-face{">>
    \o <<"font-family:">> \o sigFamily(rule) \o <<";">>
    \o <<"font-style:">> \o trim(rule.style) \o <<";">>
    \o <<"font-weight:">> \o OrElse(sigWeight(rule), s400) \o <<";">>
    \o (IF sigRange(rule) # sEmpty
        THEN <<"unicode-range:">> \o sigRange(rule) \o <<";">>
        ELSE <<>>)
    \o <<"src:url(">> \o dataUrl \o <<") format('woff2');">>
    \o <<"font-display:block;">>
    \o <<"}">>

\* lines 111-118
renderCss(rule, dataUrl) ==
  <<"@font-face{">>
    \o <<"font-family:">> \o sigFamily(rule) \o <<";">>
    \o <<"font-style:">> \o OrElse(sigStyle(rule), sNormal) \o <<";">>
    \o <<"font-weight:">> \o OrElse(sigWeight(rule), s400) \o <<";">>
    \o (IF sigRange(rule) # sEmpty
        THEN <<"unicode-range:">> \o sigRange(rule) \o <<";">>
        ELSE <<>>)
    \o <<"src:url(">> \o dataUrl \o <<") format('woff2');">>
    \o <<"font-display:block;">>
    \o <<"}">>

\* line 133
embedKey(triples) == join(sortSet(triples), <<"|">>)

\* line 143 and 145: the non-null results, joined by newlines
RECURSIVE truthyParts(_)
truthyParts(outs) ==
  IF outs = <<>> THEN <<>>
  ELSE IF Head(outs) # NULL /\ Head(outs) # sEmpty
       THEN <<Head(outs)>> \o truthyParts(Tail(outs))
       ELSE truthyParts(Tail(outs))

joinParts(outs) == join(truthyParts(outs), <<"\n">>)

(***************************************************************************)
(* The state machine                                                       *)
(***************************************************************************)
Calls == 1..MaxCalls

EmptyMap == [k \in {} |-> sEmpty]

\* Every url a font-face rule of the pool names.
Urls ==
  UNION { UNION { { stripQuotes(s.cssRules[i].src[j].url) :
                      j \in 1..Len(s.cssRules[i].src) } :
                  i \in 1..Len(s.cssRules) } :
          s \in SheetPool }

\* A call of buildFontEmbedCSS that has not been made yet.
IdleCall ==
  [pc |-> "idle", root |-> <<>>, triples |-> {}, key |-> sEmpty,
   rules |-> <<>>,
   outs |-> <<>>, cur |-> sEmpty, result |-> NULL, fetched |-> <<>>,
   touched |-> {}, scanned |-> FALSE, before |-> {}, resp |-> "none"]

InFlight(c) == calls[c].pc \in {"fetching", "stored", "inlined"}

Init ==
  /\ styleSheets \in Documents
  /\ fontDataUrlCache = EmptyMap
  /\ inlinedFaceCache = EmptyMap
  /\ embedCssForTriplesCache = EmptyMap
  /\ calls = [c \in Calls |-> IdleCall]
  /\ fetchCount = [u \in Urls |-> 0]
  /\ okCount = [u \in Urls |-> 0]
  /\ overlapped = FALSE

\* Every rule of the sheets of the pool.
RulePool ==
  UNION { { s.cssRules[i] : i \in 1..Len(s.cssRules) } : s \in SheetPool }

\* lines 89-93, 99-104 and 106 for each rule of the pool: what
\* inlineFontFace computes from a rule alone.
signatureOf == [rule \in RulePool |-> cacheKeyOf(rule)]

candidatesOf == [rule \in RulePool |-> parseSrc(rule.src)]

pickOf == [rule \in RulePool |-> pickIndex(parseSrc(rule.src))]

\* inlineStart without the lookup of lines 95-96.
inlineStart_NoFaceMemo(rec, rule) ==
  LET urls == candidatesOf[rule]
      pick == pickOf[rule]
  IN  IF pick = 0
      THEN [rec EXCEPT !.pc = "inlined", !.cur = NULL,
                       !.touched = @ \cup {"inlinedFaceCache"}]
      ELSE IF Truthy(fontDataUrlCache, urls[pick].url)
      THEN [rec EXCEPT !.pc = "stored",
                       !.cur = fontDataUrlCache[urls[pick].url],
                       !.touched = @ \cup {"inlinedFaceCache",
                                           "fontDataUrlCache"}]
      ELSE [rec EXCEPT !.pc = "fetching", !.cur = urls[pick].url,
                       !.fetched = Append(@, [i   |-> Len(rec.outs) + 1,
                                              url |-> urls[pick].url]),
                       !.touched = @ \cup {"inlinedFaceCache",
                                           "fontDataUrlCache"}]

\* inlineStart with urlToDataUrl never finding its url cached.
inlineStart_NoUrlMemo(rec, rule) ==
  LET cacheKey == signatureOf[rule]
      urls     == candidatesOf[rule]
      pick     == pickOf[rule]
  IN  IF Truthy(inlinedFaceCache, cacheKey)
      THEN [rec EXCEPT !.pc = "inlined", !.cur = inlinedFaceCache[cacheKey],
                       !.touched = @ \cup {"inlinedFaceCache"}]
      ELSE IF pick = 0
      THEN [rec EXCEPT !.pc = "inlined", !.cur = NULL,
                       !.touched = @ \cup {"inlinedFaceCache"}]
      ELSE [rec EXCEPT !.pc = "fetching", !.cur = urls[pick].url,
                       !.fetched = Append(@, [i   |-> Len(rec.outs) + 1,
                                              url |-> urls[pick].url]),
                       !.touched = @ \cup {"inlinedFaceCache",
                                           "fontDataUrlCache"}]

\* inlineFontFace(rule) from its entry to its first await or its return
\* (lines 89-109, with urlToDataUrl lines 10-13), for the call record rec.
inlineStart(rec, rule) ==
  LET cacheKey == signatureOf[rule]
      urls     == candidatesOf[rule]
      pick     == pickOf[rule]
  IN  IF Truthy(inlinedFaceCache, cacheKey)
      THEN [rec EXCEPT !.pc = "inlined", !.cur = inlinedFaceCache[cacheKey],
                       !.touched = @ \cup {"inlinedFaceCache"}]
      ELSE IF pick = 0
      THEN [rec EXCEPT !.pc = "inlined", !.cur = NULL,
                       !.touched = @ \cup {"inlinedFaceCache"}]
      ELSE IF Truthy(fontDataUrlCache, urls[pick].url)
      THEN [rec EXCEPT !.pc = "stored",
                       !.cur = fontDataUrlCache[urls[pick].url],
                       !.touched = @ \cup {"inlinedFaceCache",
                                           "fontDataUrlCache"}]
      ELSE [rec EXCEPT !.pc = "fetching", !.cur = urls[pick].url,
                       !.fetched = Append(@, [i   |-> Len(rec.outs) + 1,
                                              url |-> urls[pick].url]),
                       !.touched = @ \cup {"inlinedFaceCache",
                                           "fontDataUrlCache"}]

\* loopStep taking the matched rules from the last to the first.
loopStep_LastFirst(rec) ==
  IF Len(rec.outs) < Len(rec.rules)
  THEN inlineStart(rec, rec.rules[Len(rec.rules) - Len(rec.outs)])
  ELSE [rec EXCEPT !.pc = "done", !.result = joinParts(rec.outs),
                   !.cur = sEmpty,
                   !.touched = @ \cup {"embedCssForTriplesCache"}]

\* The loop of lines 141-148 from its head to the next await or the return.
loopStep(rec) ==
  IF Len(rec.outs) < Len(rec.rules)
  THEN inlineStart(rec, rec.rules[Len(rec.outs) + 1])
  ELSE [rec EXCEPT !.pc = "done", !.result = joinParts(rec.outs),
                   !.cur = sEmpty,
                   !.touched = @ \cup {"embedCssForTriplesCache"}]

\* RunLoop with line 146 storing the parts joined without the separator.
RunLoop_StoresUnjoined(c, rec) ==
  LET next == loopStep(rec)
  IN  /\ calls' = [calls EXCEPT ![c] = next]
      /\ embedCssForTriplesCache' =
           IF next.pc = "done"
           THEN MapSet(embedCssForTriplesCache, next.key,
                       join(truthyParts(rec.outs), <<>>))
           ELSE embedCssForTriplesCache
      /\ fetchCount' =
           IF next.pc = "fetching"
           THEN [fetchCount EXCEPT ![next.cur] = @ + 1]
           ELSE fetchCount

\* The effects of running the loop for call c from record rec.
RunLoop(c, rec) ==
  LET next == loopStep(rec)
  IN  /\ calls' = [calls EXCEPT ![c] = next]
      /\ embedCssForTriplesCache' =
           IF next.pc = "done"
           THEN MapSet(embedCssForTriplesCache, next.key, next.result)
           ELSE embedCssForTriplesCache
      /\ fetchCount' =
           IF next.pc = "fetching"
           THEN [fetchCount EXCEPT ![next.cur] = @ + 1]
           ELSE fetchCount

\* noTriples without the early return of lines 128-130.
noTriples_Never(triples) == FALSE

\* line 128: !triples.size
noTriples(triples) == triples = {}

\* buildFontEmbedCSS(root) up to its first await or its return
\* (lines 127-142).
Build(c, root) ==
  /\ calls[c].pc = "idle"
  /\ \A d \in Calls : d < c => calls[d].pc # "idle"
  /\ overlapped' = (overlapped \/ \E d \in Calls : InFlight(d))
  /\ UNCHANGED <<styleSheets, fontDataUrlCache, inlinedFaceCache, okCount>>
  /\ LET triples == collectUsedTriples(root)
         key     == embedKey(triples)
         rec     == [IdleCall EXCEPT
                       !.root = root, !.triples = triples,
                       !.before = { d \in Calls : calls[d].pc = "done" }]
     IN  IF noTriples(triples)
         THEN /\ calls' = [calls EXCEPT ![c] =
                             [rec EXCEPT !.pc = "done", !.result = sEmpty]]
              /\ UNCHANGED <<embedCssForTriplesCache, fetchCount>>
         ELSE IF Truthy(embedCssForTriplesCache, key)
         THEN /\ calls' = [calls EXCEPT ![c] =
                             [rec EXCEPT
                                !.pc = "done", !.key = key,
                                !.result = embedCssForTriplesCache[key],
                                !.touched = {"embedCssForTriplesCache"}]]
              /\ UNCHANGED <<embedCssForTriplesCache, fetchCount>>
         ELSE RunLoop(c, [rec EXCEPT
                            !.key = key,
                            !.touched = {"embedCssForTriplesCache"},
                            !.scanned = TRUE,
                            !.rules = getMatchingFontFaceRules(styleSheets,
                                                               triples)])

\* FetchFail that also drops the inlined faces, to have them rebuilt.
FetchFail_Evicts(c) ==
  /\ calls[c].pc = "fetching"
  /\ calls' = [calls EXCEPT ![c].pc = "failed", ![c].resp = "error"]
  /\ inlinedFaceCache' = EmptyMap
  /\ UNCHANGED <<styleSheets, fontDataUrlCache,
                 embedCssForTriplesCache, fetchCount, okCount, overlapped>>

\* FetchFail with the error caught in the loop and the rule skipped.
FetchFail_Swallowed(c) ==
  /\ calls[c].pc = "fetching"
  /\ calls' = [calls EXCEPT ![c].pc = "inlined", ![c].cur = NULL,
                            ![c].resp = "error"]
  /\ UNCHANGED <<styleSheets, fontDataUrlCache, inlinedFaceCache,
                 embedCssForTriplesCache, fetchCount, okCount, overlapped>>

\* FetchFail with the failed url remembered, so that it is not asked for
\* again.
FetchFail_Remembers(c) ==
  /\ calls[c].pc = "fetching"
  /\ calls' = [calls EXCEPT ![c].pc = "failed", ![c].resp = "error"]
  /\ fontDataUrlCache' = MapSet(fontDataUrlCache, calls[c].cur, <<"error">>)
  /\ UNCHANGED <<styleSheets, inlinedFaceCache,
                 embedCssForTriplesCache, fetchCount, okCount, overlapped>>

\* urlToDataUrl lines 13-14: the response is not ok; the error propagates
\* through inlineFontFace (line 109) and buildFontEmbedCSS (line 142).
FetchFail(c) ==
  /\ calls[c].pc = "fetching"
  /\ calls' = [calls EXCEPT ![c].pc = "failed", ![c].resp = "error"]
  /\ UNCHANGED <<styleSheets, fontDataUrlCache, inlinedFaceCache,
                 embedCssForTriplesCache, fetchCount, okCount, overlapped>>

\* urlToDataUrl lines 13-23: the response is ok, the blob is read, the
\* data url is stored and returned.
FetchOk(c) ==
  /\ calls[c].pc = "fetching"
  /\ LET url     == calls[c].cur
         dataUrl == readAsDataURL(Blob(url))
     IN  /\ fontDataUrlCache' = MapSet(fontDataUrlCache, url, dataUrl)
         /\ calls' = [calls EXCEPT ![c].pc = "stored", ![c].cur = dataUrl,
                                   ![c].resp = "ok"]
         /\ okCount' = [okCount EXCEPT ![url] = @ + 1]
  /\ UNCHANGED <<styleSheets, inlinedFaceCache, embedCssForTriplesCache,
                 fetchCount, overlapped>>

\* InlineResume returning the block without the store of line 120.
InlineResume_ReturnsOnly(c) ==
  /\ calls[c].pc = "stored"
  /\ LET rule == calls[c].rules[Len(calls[c].outs) + 1]
         css  == renderCss(rule, calls[c].cur)
     IN  calls' = [calls EXCEPT ![c].pc = "inlined", ![c].cur = css]
  /\ UNCHANGED <<styleSheets, fontDataUrlCache, inlinedFaceCache,
                 embedCssForTriplesCache, fetchCount, okCount, overlapped>>

\* inlineFontFace lines 109-122: resumed with the data url.
InlineResume(c) ==
  /\ calls[c].pc = "stored"
  /\ LET rule == calls[c].rules[Len(calls[c].outs) + 1]
         css  == renderCss(rule, calls[c].cur)
     IN  /\ inlinedFaceCache' = MapSet(inlinedFaceCache, signatureOf[rule], css)
         /\ calls' = [calls EXCEPT ![c].pc = "inlined", ![c].cur = css]
  /\ UNCHANGED <<styleSheets, fontDataUrlCache, embedCssForTriplesCache,
                 fetchCount, okCount, overlapped>>

\* BuildResume dropping the result of inlineFontFace, so that the loop
\* stays at the same rule.
BuildResume_SameRule(c) ==
  /\ calls[c].pc = "inlined"
  /\ RunLoop(c, calls[c])
  /\ UNCHANGED <<styleSheets, fontDataUrlCache, inlinedFaceCache, okCount,
                 overlapped>>

\* buildFontEmbedCSS lines 142-148: resumed with the result of
\* inlineFontFace; runs on to the next await or to the return.
BuildResume(c) ==
  /\ calls[c].pc = "inlined"
  /\ RunLoop(c, [calls[c] EXCEPT !.outs = Append(@, calls[c].cur)])
  /\ UNCHANGED <<styleSheets, fontDataUrlCache, inlinedFaceCache, okCount,
                 overlapped>>

Next ==
  \/ \E c \in Calls, root \in Roots : Build(c, root)
  \/ \E c \in Calls : FetchFail(c)
  \/ \E c \in Calls : FetchOk(c)
  \/ \E c \in Calls : InlineResume(c)
  \/ \E c \in Calls : BuildResume(c)

Spec == Init /\ [][Next]_vars

(***************************************************************************)
(* Properties                                                              *)
(***************************************************************************)
Started(c) == calls[c].pc # "idle"

Done(c) == calls[c].pc = "done"

\* C1: a call made after a call on the same subtree has returned issues
\* no fetch, does not fail, and returns what the first call returned; when
\* that was not the empty string it returns it straight from the cache.
C1_Idempotence ==
  \A c, d \in Calls :
     (c \in calls[d].before /\ calls[d].root = calls[c].root) =>
        /\ calls[d].fetched = <<>>
        /\ calls[d].pc # "failed"
        /\ Done(d) => calls[d].result = calls[c].result
        /\ calls[c].result # sEmpty => Done(d) /\ ~calls[d].scanned

C1_Witness ==
  \E c, d \in Calls :
     /\ c \in calls[d].before /\ calls[d].root = calls[c].root
     /\ Done(d) /\ calls[c].fetched # <<>>
     /\ Len(truthyParts(calls[c].outs)) >= 2
     /\ calls[d].result = calls[c].result

\* What inlineFontFace computes for a rule when nothing is cached and the
\* fetch succeeds.
freshInline(rule) ==
  LET urls == parseSrc(rule.src)
  IN  IF urls = <<>> THEN NULL
      ELSE renderCss(rule, readAsDataURL(Blob(urls[pickIndex(urls)].url)))

freshBuild(root) ==
  LET rules == getMatchingFontFaceRules(styleSheets, collectUsedTriples(root))
  IN  joinParts([i \in 1..Len(rules) |-> freshInline(rules[i])])

\* C2: what a cache returns is what the operation computes without the
\* cache: a cached data url is the data url of its url, the text
\* inlineFontFace returns for a rule is the text of inlining that rule
\* afresh, and a cached build result is the result of matching and inlining
\* afresh.
C2_HitEqualsRecomputation ==
  /\ \A u \in DOMAIN fontDataUrlCache :
        fontDataUrlCache[u] = readAsDataURL(Blob(u))
  /\ \A c \in Calls :
        calls[c].pc = "inlined" =>
           calls[c].cur = freshInline(calls[c].rules[Len(calls[c].outs) + 1])
  /\ \A c \in Calls :
        (Done(c) /\ ~calls[c].scanned /\ calls[c].touched # {}) =>
           calls[c].result = freshBuild(calls[c].root)

\* C3: a call that received a response that is not ok has failed, has no
\* result (neither a partial text nor the empty string), and fetched the
\* failing url once.
C3_FailurePropagates ==
  \A c \in Calls :
     calls[c].resp = "error" =>
        /\ calls[c].pc = "failed"
        /\ calls[c].result = NULL
        /\ LET last == calls[c].fetched[Len(calls[c].fetched)]
           IN  /\ last.url = calls[c].cur
               /\ Cardinality({ i \in 1..Len(calls[c].fetched) :
                                  calls[c].fetched[i].url = last.url }) = 1

C3_Witness ==
  \E c \in Calls :
     /\ calls[c].resp = "error"
     /\ calls[c].outs # <<>>
     /\ truthyParts(calls[c].outs) # <<>>

\* C4 as stated: without overlapping calls no url is fetched twice.
C4_OneFetchPerUrl ==
  ~overlapped => \A u \in Urls : fetchCount[u] <= 1

Pending(u) ==
  Cardinality({ c \in Calls : calls[c].pc = "fetching" /\ calls[c].cur = u })

\* C4 amended: without overlapping calls, at most one fetch of a url
\* succeeds, and once it has succeeded no fetch of that url is issued.
C4_OneSuccessfulFetchPerUrl ==
  ~overlapped =>
     \A u \in Urls :
        /\ okCount[u] + Pending(u) <= 1
        /\ okCount[u] = 1 <=> u \in DOMAIN fontDataUrlCache

C4_Witness ==
  /\ ~overlapped
  /\ \E u \in Urls : fetchCount[u] >= 2 /\ okCount[u] = 1
  /\ \E c, d \in Calls :
        /\ calls[c].pc = "failed" /\ Done(d)
        /\ calls[d].root = calls[c].root
        /\ calls[d].fetched # <<>>

\* The builder run alone from empty caches with every fetch succeeding.
RECURSIVE seqRun(_, _, _)
seqRun(rules, faces, outs) ==
  IF rules = <<>> THEN joinParts(outs)
  ELSE LET rule == Head(rules)
           k    == cacheKeyOf(rule)
       IN  IF Truthy(faces, k)
           THEN seqRun(Tail(rules), faces, Append(outs, faces[k]))
           ELSE IF freshInline(rule) = NULL
           THEN seqRun(Tail(rules), faces, Append(outs, NULL))
           ELSE seqRun(Tail(rules), MapSet(faces, k, freshInline(rule)),
                       Append(outs, freshInline(rule)))

seqBuild(root) ==
  IF collectUsedTriples(root) = {} THEN sEmpty
  ELSE seqRun(getMatchingFontFaceRules(styleSheets,
                                       collectUsedTriples(root)),
              EmptyMap, <<>>)

KeepsValues(old, new) ==
  \A k \in DOMAIN old : k \in DOMAIN new => new[k] = old[k]

C6_AppendOnly ==
  [][/\ DOMAIN fontDataUrlCache \subseteq DOMAIN fontDataUrlCache'
     /\ DOMAIN inlinedFaceCache \subseteq DOMAIN inlinedFaceCache'
     /\ DOMAIN embedCssForTriplesCache
          \subseteq DOMAIN embedCssForTriplesCache']_vars

C6_Witness ==
  /\ DOMAIN fontDataUrlCache # {}
  /\ DOMAIN inlinedFaceCache # {}
  /\ DOMAIN embedCssForTriplesCache # {}
  /\ \E c, d \in Calls :
        /\ c \in calls[d].before
        /\ calls[c].fetched # <<>>
        /\ calls[d].pc = "failed"

\* C7: a call on a subtree without variants returns the empty string at
\* once, reads and writes no cache, scans no style rule and fetches nothing.
C7_EmptyShortCircuit ==
  [][\A c \in Calls :
       (/\ calls[c].pc = "idle"
        /\ calls'[c].pc # "idle"
        /\ collectUsedTriples(calls'[c].root) = {}) =>
          /\ calls'[c].pc = "done"
          /\ calls'[c].result = sEmpty
          /\ calls'[c].touched = {}
          /\ ~calls'[c].scanned
          /\ calls'[c].fetched = <<>>
          /\ UNCHANGED <<fontDataUrlCache, inlinedFaceCache,
                         embedCssForTriplesCache, fetchCount>>]_vars

C7_Witness ==
  \E c, d \in Calls :
     /\ Done(c) /\ collectUsedTriples(calls[c].root) = {}
     /\ d \in calls[c].before
     /\ DOMAIN embedCssForTriplesCache # {}
     /\ DOMAIN inlinedFaceCache # {}

\* The rules of the readable sheets, in sheet order then rule order.
RECURSIVE allRules(_)
allRules(sheets) ==
  IF sheets = <<>> THEN <<>>
  ELSE (IF Head(sheets).throws THEN <<>> ELSE Head(sheets).cssRules)
         \o allRules(Tail(sheets))

IsMatch(rule, triples) ==
  /\ rule.type = "FONT_FACE_RULE"
  /\ stripQuotes(trim(rule.family)) # sEmpty
  /\ \E tr \in triples : toLowerCase(tr) = ruleKey(rule)

\* The matches in discovery order, none dropped.
RECURSIVE matchesOf(_, _)
matchesOf(rules, triples) ==
  IF rules = <<>> THEN <<>>
  ELSE (IF IsMatch(Head(rules), triples) THEN <<Head(rules)>> ELSE <<>>)
         \o matchesOf(Tail(rules), triples)

Blocks(text) ==
  LET parts == split(text, "\n") IN { parts[i] : i \in 1..Len(parts) }

\* C8: the matcher returns every matching rule in discovery order, and the
\* text a call returns holds, for each of them that has a source candidate,
\* the block that embeds the data url of that rule's own candidate.
C8_EachMatchInlinedByItself ==
  \A c \in Calls :
     LET expected == matchesOf(allRules(styleSheets),
                               collectUsedTriples(calls[c].root))
     IN  /\ calls[c].scanned => calls[c].rules = expected
         /\ Done(c) =>
              \A i \in 1..Len(expected) :
                 freshInline(expected[i]) # NULL =>
                    freshInline(expected[i]) \in Blocks(calls[c].result)

readableSheets == SelectSeq(styleSheets, LAMBDA s : ~s.throws)

\* C9: the rules a call matches are the matches of the readable sheets in
\* their order, and a call fails only on a response that is not ok.
C9_ThrowingSheetsSkipped ==
  /\ [](\A c \in Calls : calls[c].pc = "failed" => calls[c].resp = "error")
  /\ [][\A c \in Calls :
          (calls[c].pc = "idle" /\ calls'[c].scanned) =>
             calls'[c].rules =
               getMatchingFontFaceRules(readableSheets,
                                        collectUsedTriples(calls'[c].root))]_vars

C9_Witness ==
  /\ Len(styleSheets) = 2
  /\ styleSheets[1].throws /\ ~styleSheets[2].throws
  /\ \E c \in Calls :
        Done(c) /\ calls[c].scanned /\ calls[c].rules # <<>>
                /\ calls[c].result # sEmpty

\* The candidate C10 names: the first whose format contains woff2 in any
\* letter case, else the first.
expectedPick(urls) ==
  LET hasWoff2(i) == includes(toLowerCase(urls[i].format), sWoff2)
  IN  IF \E i \in 1..Len(urls) : hasWoff2(i)
      THEN urls[CHOOSE i \in 1..Len(urls) :
                  hasWoff2(i) /\ \A j \in 1..(i - 1) : ~hasWoff2(j)]
      ELSE urls[1]

\* C10: the text inlineFontFace returned for a rule with candidates embeds
\* the data url of the expected pick, and the call fetched no other
\* candidate of that rule and none twice.
C10_CandidateSelection ==
  \A c \in Calls :
     \A i \in 1..Len(calls[c].outs) :
        LET urls == parseSrc(calls[c].rules[i].src)
        IN  urls # <<>> =>
              /\ calls[c].outs[i] =
                   renderCss(calls[c].rules[i],
                             readAsDataURL(Blob(expectedPick(urls).url)))
              /\ \A k \in 1..Len(calls[c].fetched) :
                    calls[c].fetched[k].i = i =>
                       /\ calls[c].fetched[k].url = expectedPick(urls).url
                       /\ \A m \in 1..Len(calls[c].fetched) :
                             calls[c].fetched[m].i = i => m = k

Range(s) == { s[i] : i \in 1..Len(s) }

\* The family, weight and style of a variant, read back from its text.
variantField(tr, n) == split(tr, "|")[2 * n - 1]

\* A variant and a font-face declaration have the same family and style and
\* equal weights once normal is read as 400 and bold as 700, letter case
\* aside.
SameVariant(tr, rule) ==
  /\ rule.type = "FONT_FACE_RULE"
  /\ stripQuotes(trim(rule.family)) # sEmpty
  /\ toLowerCase(variantField(tr, 1))
       = toLowerCase(stripQuotes(trim(rule.family)))
  /\ toLowerCase(normalizeWeight(variantField(tr, 2)))
       = toLowerCase(normalizeWeight(trim(OrElse(rule.weight, s400))))
  /\ toLowerCase(variantField(tr, 3))
       = toLowerCase(OrElse(trim(OrElse(rule.style, sNormal)), sNormal))

\* C11: the rules a call matches are exactly the font-face rules of the
\* readable sheets that have the family and style of one of its variants
\* and an equal weight after mapping normal to 400 and bold to 700, in
\* any letter case.
C11_WeightNormalization ==
  [][\A c \in Calls :
       (calls[c].pc = "idle" /\ calls'[c].scanned) =>
          \A rule \in Range(allRules(styleSheets)) :
             rule \in Range(calls'[c].rules)
               <=> \E tr \in calls'[c].triples : SameVariant(tr, rule)]_vars

C11_Witness ==
  \E c \in Calls :
     /\ calls[c].scanned
     /\ \E tr \in calls[c].triples : variantField(tr, 2) = s700
     /\ \E tr \in calls[c].triples : variantField(tr, 1) = <<"A", "b">>
     /\ \E i, j, k \in 1..Len(calls[c].rules) :
           /\ calls[c].rules[i].weight = sNormal
           /\ calls[c].rules[i].family = <<" ", "'", "a", "b", "'">>
           /\ calls[c].rules[j].weight = sBold
           /\ calls[c].rules[k].weight = sEmpty

\* The url inlineFontFace asks urlToDataUrl for (line 109), when it does.
pickUrl(rule) ==
  LET urls == parseSrc(rule.src) IN urls[pickIndex(urls)].url

\* C12: a call inlines its matched rules one after the other in discovery
\* order: its fetches are for rules of increasing position, each for the
\* candidate of the rule at that position; a fetch is issued only for the
\* rule after the last one inlined, so at most one is in flight; and while
\* it works on a rule, the data urls of its earlier fetches and the blocks
\* of the rules before are in their caches.
C12_SequentialInlining ==
  \A c \in Calls :
     LET f == calls[c].fetched
         n == Len(calls[c].outs)
     IN  /\ n <= Len(calls[c].rules)
         /\ \A k \in 1..Len(f) :
               /\ f[k].i \in 1..Len(calls[c].rules)
               /\ f[k].url = pickUrl(calls[c].rules[f[k].i])
               /\ k < Len(f) =>
                     /\ f[k].i < f[k + 1].i
                     /\ f[k].i <= n
                     /\ f[k].url \in DOMAIN fontDataUrlCache
         /\ f # <<>> => f[Len(f)].i <= n + 1
         /\ calls[c].pc = "fetching" =>
               f # <<>> /\ f[Len(f)].i = n + 1 /\ f[Len(f)].url = calls[c].cur
         /\ \A j \in 1..n :
               calls[c].outs[j] # NULL =>
                  cacheKeyOf(calls[c].rules[j]) \in DOMAIN inlinedFaceCache

C12_Witness ==
  \E c \in Calls :
     /\ Done(c)
     /\ Len(calls[c].fetched) >= 2
     /\ calls[c].fetched[2].i >= calls[c].fetched[1].i + 2
     /\ \E j \in 1..Len(calls[c].outs) : calls[c].outs[j] = NULL

\* C13: a call whose variant key has an entry in embedCssForTriplesCache,
\* whatever the value stored, returns that value at once: it scans no style
\* rule, inlines nothing, fetches nothing and leaves the caches as they are.
C13_HitReturnsAtOnce ==
  [][\A c \in Calls :
       (/\ calls[c].pc = "idle"
        /\ calls'[c].pc # "idle"
        /\ calls'[c].triples # {}
        /\ embedKey(calls'[c].triples) \in DOMAIN embedCssForTriplesCache) =>
          /\ calls'[c].pc = "done"
          /\ calls'[c].result =
               embedCssForTriplesCache[embedKey(calls'[c].triples)]
          /\ ~calls'[c].scanned
          /\ calls'[c].outs = <<>>
          /\ calls'[c].fetched = <<>>
          /\ UNCHANGED <<fontDataUrlCache, inlinedFaceCache,
                         embedCssForTriplesCache, fetchCount>>]_vars

\* The generic keyword families C14 names.
GenericKeywords == GenericPrefixes \ { <<"u", "i", "-">> }

\* A family that is one of the keywords, or begins with ui-.
isGenericKeyword(family) ==
  \/ toLowerCase(family) \in GenericKeywords
  \/ startsWith(toLowerCase(family), <<"u", "i", "-">>)

\* C14: the variants of a call are those of the elements whose first
\* family is not empty, is not one of serif, sans-serif, monospace and
\* system-ui and does not begin with ui-; a family that only begins with
\* one of the keywords contributes.
C14_GenericExclusionExact ==
  \A c \in Calls :
     Started(c) =>
        calls[c].triples =
          { tripleOf(calls[c].root[i]) :
              i \in { j \in 1..Len(calls[c].root) :
                        /\ firstFamily(calls[c].root[j]) # sEmpty
                        /\ ~isGenericKeyword(firstFamily(calls[c].root[j])) } }

NoCandidate(rule) == parseSrc(rule.src) = <<>>

\* C15: for a matched rule whose src has no candidate, inlineFontFace
\* returns null and fetches nothing, the call does not fail over it, and
\* the text the call returns is the join of the blocks of the other rules.
C15_NoCandidateOmitted ==
  \A c \in Calls :
     /\ \A i \in 1..Len(calls[c].outs) :
           NoCandidate(calls[c].rules[i]) =>
              /\ calls[c].outs[i] = NULL
              /\ \A k \in 1..Len(calls[c].fetched) : calls[c].fetched[k].i # i
     /\ calls[c].pc = "failed" =>
           ~NoCandidate(calls[c].rules[Len(calls[c].outs) + 1])
     /\ (Done(c) /\ calls[c].scanned) =>
           calls[c].result =
             joinParts([i \in 1..Len(calls[c].outs) |->
                          IF NoCandidate(calls[c].rules[i]) THEN NULL
                          ELSE calls[c].outs[i]])

\* C16: the variants of a call never include two that are equal in lower
\* case, and two calls whose variants are the same in lower case have the
\* same variants and the same embedCssForTriplesCache key.
C16_VariantIdentityIgnoresCase ==
  /\ \A c \in Calls :
        \A t1, t2 \in calls[c].triples :
           toLowerCase(t1) = toLowerCase(t2) => t1 = t2
  /\ \A c, d \in Calls :
        (/\ Started(c) /\ Started(d)
         /\ { toLowerCase(tr) : tr \in calls[c].triples }
              = { toLowerCase(tr) : tr \in calls[d].triples }) =>
           /\ calls[c].triples = calls[d].triples
           /\ embedKey(calls[c].triples) = embedKey(calls[d].triples)

\* The number of places at which sub occurs in s.
occurrences(s, sub) ==
  Cardinality({ i \in 1..(Len(s) - Len(sub) + 1) :
                  SubSeq(s, i, i + Len(sub) - 1) = sub })

\* The block C17 describes for a rule: the rule's trimmed family, its
\* style or normal, its weight or 400, its unicode-range if it has one, one
\* src with the data url of the chosen candidate and format('woff2'),
\* font-display:block.
blockOf(rule) ==
  <<"@font-face{">>
    \o <<"font-family:">> \o trim(rule.family) \o <<";">>
    \o <<"font-style:">>
    \o (IF trim(rule.style) = sEmpty THEN sNormal ELSE trim(rule.style))
    \o <<";">>
    \o <<"font-weight:">>
    \o (IF trim(rule.weight) = sEmpty THEN s400 ELSE trim(rule.weight))
    \o <<";">>
    \o (IF trim(rule.uRange) = sEmpty THEN <<>>
        ELSE <<"unicode-range:">> \o trim(rule.uRange) \o <<";">>)
    \o <<"src:url(">> \o readAsDataURL(Blob(pickUrl(rule)))
    \o <<") format('woff2');">>
    \o <<"font-display:block;">>
    \o <<"}">>

\* C17: the block inlineFontFace renders for a rule is the block above, with
\* one src, one font-display and a unicode-range only if the rule has one;
\* a call that matched one rule, a rule with a candidate, returns that
\* block alone.
C17_BlockShape ==
  [][\A c \in Calls :
       /\ (calls[c].pc = "stored" /\ calls'[c].pc = "inlined") =>
             LET rule == calls[c].rules[Len(calls[c].outs) + 1]
                 css  == calls'[c].cur
             IN  /\ css = blockOf(rule)
                 /\ occurrences(css, <<"src:url(">>) = 1
                 /\ occurrences(css, <<") format('woff2');">>) = 1
                 /\ occurrences(css, <<"font-display:block;">>) = 1
                 /\ occurrences(css, <<"unicode-range:">>)
                      = (IF rule.uRange = sEmpty THEN 0 ELSE 1)
                 /\ inlinedFaceCache'[cacheKeyOf(rule)] = css
       /\ (/\ ~Done(c) /\ calls'[c].pc = "done"
           /\ Len(calls'[c].rules) = 1
           /\ ~NoCandidate(calls'[c].rules[1])) =>
             calls'[c].result = blockOf(calls'[c].rules[1])]_vars

C17_Witness ==
  \E c, d \in Calls :
     /\ Done(c) /\ Len(calls[c].rules) = 1
     /\ ~NoCandidate(calls[c].rules[1])
     /\ calls[c].rules[1].style = sEmpty
     /\ calls[c].result = blockOf(calls[c].rules[1])
     /\ occurrences(calls[c].result, <<"unicode-range:">>) = 0
     /\ Done(d) /\ calls[d].fetched # <<>>
     /\ \E i \in 1..Len(calls[d].rules) :
           /\ calls[d].rules[i].uRange # sEmpty
           /\ ~NoCandidate(calls[d].rules[i])
           /\ parseSrc(calls[d].rules[i].src)[1].format = sTruetype
           /\ calls[d].outs[i] = blockOf(calls[d].rules[i])
           /\ occurrences(calls[d].outs[i], <<"unicode-range:">>) = 1

\* A document with one style sheet.
LiveInit == Init /\ Len(styleSheets) = 1

\* The event loop runs every continuation that is ready: a call whose
\* inlineFontFace or buildFontEmbedCSS can resume does resume.  The fetches
\* of the calls after the first resolve, with an ok response or not; those
\* of the first call may never resolve.  Whether a call is made is up to
\* the caller.
LiveSpec ==
  /\ LiveInit /\ [][Next]_vars
  /\ \A c \in Calls : WF_vars(InlineResume(c)) /\ WF_vars(BuildResume(c))
  /\ \A c \in Calls \ {1} : WF_vars(FetchOk(c) \/ FetchFail(c))

Finished(c) == calls[c].pc \in {"done", "failed"}

Fails(c) == calls[c].pc = "fetching" /\ calls'[c].pc = "failed"

\* What a call has written for the rules before the one it is working on
\* is in the caches.
EarlierEntriesRemain(c) ==
  /\ \A k \in 1..(Len(calls[c].fetched) - 1) :
        calls[c].fetched[k].url \in DOMAIN fontDataUrlCache'
  /\ \A j \in 1..Len(calls[c].outs) :
        calls[c].outs[j] # NULL =>
           cacheKeyOf(calls[c].rules[j]) \in DOMAIN inlinedFaceCache'

\* No cache has an entry for the key of call c, the url it was fetching or
\* the signature of the rule it was inlining.
NoEntryForFailure(c) ==
  /\ calls[c].key \notin DOMAIN embedCssForTriplesCache'
  /\ calls[c].cur \notin DOMAIN fontDataUrlCache'
  /\ cacheKeyOf(calls[c].rules[Len(calls[c].outs) + 1])
       \notin DOMAIN inlinedFaceCache'

\* A fetch is issued only for a url that has no data url cached.
FetchesOnlyUncached ==
  \A u \in Urls : fetchCount'[u] > fetchCount[u] => ~Truthy(fontDataUrlCache, u)

\* C19 as stated: when a call fails, the caches have no entry for its key,
\* the failed url and the signature of the rule being inlined, the entries
\* of the rules before remain, and fetches are only for urls not cached.
C19_StateAfterFailure ==
  [][/\ \A c \in Calls :
          Fails(c) => NoEntryForFailure(c) /\ EarlierEntriesRemain(c)
     /\ FetchesOnlyUncached]_vars

\* C19 amended: a failing call writes no cache at its failure, the entries
\* of its earlier rules remain, fetches are only for urls not cached, and
\* when no calls have overlapped the caches have no entry for its key, the
\* failed url and the signature of the rule being inlined.
C19_FailureWritesNothing ==
  [][/\ \A c \in Calls :
          Fails(c) =>
             /\ UNCHANGED <<fontDataUrlCache, inlinedFaceCache,
                            embedCssForTriplesCache>>
             /\ EarlierEntriesRemain(c)
             /\ ~overlapped => NoEntryForFailure(c)
     /\ FetchesOnlyUncached]_vars

C19_Witness ==
  /\ ~overlapped
  /\ \E c, d \in Calls :
        /\ c < d
        /\ calls[c].pc = "failed" /\ Len(calls[c].fetched) >= 2
        /\ Done(d) /\ calls[d].root = calls[c].root
        /\ Len(calls[d].fetched) = 1
        /\ calls[d].fetched[1].url = calls[c].cur
        /\ calls[c].fetched[1].url \in DOMAIN fontDataUrlCache

Values(map) == { map[k] : k \in DOMAIN map }

\* The block embeds this data url as its src.
Embeds(css, dataUrl) ==
  includes(css, <<"src:url(">> \o dataUrl \o <<") format('woff2');">>)

\* C20: in every state every block in inlinedFaceCache embeds the data url
\* that fontDataUrlCache holds for a url fetched with success, and every
\* text in embedCssForTriplesCache is empty or the newline-join of blocks
\* that are in inlinedFaceCache; embedCssForTriplesCache is written only by
\* a call that has an outcome for each of its matched rules, with the join
\* of them.
C20_CrossCacheConsistency ==
  /\ [](/\ \A css \in Values(inlinedFaceCache) :
              \E u \in DOMAIN fontDataUrlCache :
                 okCount[u] >= 1 /\ Embeds(css, fontDataUrlCache[u])
        /\ \A text \in Values(embedCssForTriplesCache) :
              text = sEmpty \/ Blocks(text) \subseteq Values(inlinedFaceCache))
  /\ [][embedCssForTriplesCache' # embedCssForTriplesCache =>
          \E c \in Calls :
             /\ ~Done(c) /\ calls'[c].pc = "done"
             /\ Len(calls'[c].outs) = Len(calls'[c].rules)
             /\ calls'[c].result = joinParts(calls'[c].outs)
             /\ embedCssForTriplesCache' =
                  MapSet(embedCssForTriplesCache, calls'[c].key,
                         calls'[c].result)]_vars

C20_Witness ==
  /\ overlapped
  /\ \E u \in Urls : okCount[u] >= 2
  /\ Cardinality(DOMAIN inlinedFaceCache) >= 3
  /\ \E text \in Values(embedCssForTriplesCache) :
        Cardinality(Blocks(text)) >= 3

====
